---- MODULE Spec2Model ----
(***************************************************************************)
(* bugfruit: an embedded key/value store.  One append-only database file   *)
(* of records (9-byte header, key, value), an in-memory index (muMap) of   *)
(* pointers to datums, a file mutex (muFile) and an index RWMutex.         *)
(*                                                                         *)
(* The file is a sequence of bytes.  Datums live in a heap (Go pointers):  *)
(* the index and the locals of running calls hold heap addresses, so a     *)
(* MarkDeleted or an idx stamp through one pointer is seen through all.    *)
(***************************************************************************)
EXTENDS Integers, Sequences, FiniteSets, TLC

(* ---------------------------------------------------------------------- *)
(* Bounds and inputs                                                      *)
(* ---------------------------------------------------------------------- *)

\* Total number of Set calls explored in one behaviour.
MaxSets == 2

\* Total number of vacuum and Snapshot calls explored in one behaviour.
MaxMaint == 1

\* Number of times the file is closed and opened again in one behaviour.
MaxOpens == 1

\* Keys and values the callers draw from (byte strings).
Keys == {<<1>>, <<2>>}
Vals == {<<>>, <<5>>}

\* Number of records in a database file that exists before NewStorage.
MaxRecs == 2

\* Longest key and value of the short records the codec is run on.
MaxLen == 2

\* Goroutines calling into one Storage.
SeqThreads == {1}
ConcThreads == {1, 2}
TrioThreads == {1, 2, 3}

\* The batches of the default Config of NewStorage (50000 and 25000), scaled:
\* a vacuum every VacuumBatchN writes, an fsync every FsyncBatchN writes.
VacuumBatchN == 2
FsyncBatchN == 1

\* The fsync batch of a Config with periodic vacuum off.
FsyncOnlyN == 2

\* The Configs a Storage is opened with: both batches off, the default, and
\* periodic fsync alone.
ConfigOff == [VacuumBatch |-> 0, FsyncBatch |-> 0]
ConfigFsync == [VacuumBatch |-> 0, FsyncBatch |-> FsyncOnlyN]
ConfigDefault == [VacuumBatch |-> VacuumBatchN, FsyncBatch |-> FsyncBatchN]

\* A Config with periodic vacuum alone.
ConfigVacuum == [VacuumBatch |-> VacuumBatchN, FsyncBatch |-> 0]

(* ---------------------------------------------------------------------- *)
(* Bytes and the record codec (meta.go, datum.go)                         *)
(* ---------------------------------------------------------------------- *)

metaSize == 9

\* uint32(n): n truncated to 32 bits, computed on two 16-bit halves (the low
\* half and the next 16 bits), which is n mod 2^32 for every n >= 0.
uint32(n) == ((n \div 65536) % 65536) * 65536 + (n % 65536)

\* An int64 file position past the reach of one model integer, held in two
\* parts: the low 16 bits and the bits above them.  The position is
\* hi * halfWord + lo.
halfWord == 65536

Pos64(hi, lo) == [hi |-> hi, lo |-> lo]

\* p + n for a position p and a byte count n
Add64(p, n) == [hi |-> p.hi + ((p.lo + n) \div halfWord), lo |-> (p.lo + n) % halfWord]

\* uint32(p) of an int64 position p: the bits from bit 32 up are dropped
uint32Of(p) == [hi |-> p.hi % halfWord, lo |-> p.lo]

\* p > math.MaxUint32
AboveMaxUint32(p) == p.hi >= halfWord

Min(a, b) == IF a < b THEN a ELSE b
Max(a, b) == IF a > b THEN a ELSE b

\* Faulty variant: most significant byte first.
PutUint32BigEndian(n) ==
    << (n \div 16777216) % 256, (n \div 65536) % 256, (n \div 256) % 256, n % 256 >>

\* binary.LittleEndian.PutUint32
PutUint32(n) ==
    << n % 256, (n \div 256) % 256, (n \div 65536) % 256, (n \div 16777216) % 256 >>

\* binary.LittleEndian.Uint32 of b[i..i+3] (1-based i)
Uint32(b, i) == b[i] + 256 * b[i + 1] + 65536 * b[i + 2] + 16777216 * b[i + 3]

\* copy(dst, src) into a zeroed dst of length n: min(n, len(src)) bytes copied
CopyInto(n, src) == [i \in 1..n |-> IF i <= Len(src) THEN src[i] ELSE 0]

\* newDatum, then datum.Set(key, value)
NewDatum(key, value) ==
    [keySize |-> uint32(Len(key)), valSize |-> uint32(Len(value)), deleted |-> 0,
     key |-> key, value |-> value, idx |-> 0]

\* datum.Size
Size(d) == uint32(d.keySize + d.valSize + metaSize)

\* meta.Bytes
MetaBytes(d) == PutUint32(d.keySize) \o PutUint32(d.valSize) \o << d.deleted >>

\* meta.FromBytes on a 9-byte slice
MetaFromBytes(b) ==
    [keySize |-> Uint32(b, 1), valSize |-> Uint32(b, 5), deleted |-> b[9]]

\* datum.Bytes
Bytes(d) ==
    LET body == Size(d) - metaSize
    IN  MetaBytes(d) \o CopyInto(Min(d.keySize, body), d.key)
                     \o CopyInto(body - Min(d.keySize, body), d.value)

\* meta.FromBytes: a slice that is not 9 bytes long is refused
FromBytes(b) ==
    IF Len(b) # metaSize
    THEN [err |-> "invalid meta slice", keySize |-> 0, valSize |-> 0, deleted |-> 0]
    ELSE [err |-> "nil"] @@ MetaFromBytes(b)

\* datum.KeyValFromBytes with meta m: a slice that is not keySize + valSize
\* bytes long is refused
KeyValFromBytes(m, b) ==
    IF uint32(Len(b)) # uint32(m.keySize + m.valSize)
    THEN [err |-> "invalid key/val slice", key |-> << >>, value |-> << >>]
    ELSE [err |-> "nil", key |-> SubSeq(b, 1, m.keySize),
          value |-> SubSeq(b, m.keySize + 1, m.keySize + m.valSize)]

\* The byte strings the codec is run on: every string over three byte values
\* of at most n bytes
RECURSIVE Strings(_)
Strings(n) ==
    IF n = 0 THEN {<< >>}
    ELSE LET S == Strings(n - 1)
         IN  S \cup {Append(x, c) : x \in S, c \in {0, 1, 255}}

\* A string longer than one length byte counts
LongString == [i \in 1..258 |-> 7]

\* The records the codec is run on: key, value, live or marked deleted
CodecRecords ==
    LET S == Strings(MaxLen) \cup {LongString}
    IN  {[NewDatum(k, v) EXCEPT !.deleted = del] : k \in S, v \in S, del \in {0, 1}}

(* ---------------------------------------------------------------------- *)
(* File primitives (os.File on a regular file)                            *)
(* ---------------------------------------------------------------------- *)

\* file.Read of up to n bytes at 0-based position pos: the bytes read
FileRead(f, pos, n) ==
    LET got == Min(n, Max(Len(f) - pos, 0))
    IN  SubSeq(f, pos + 1, pos + got)

\* file.Write of bytes b at 0-based position pos (a gap past EOF reads as 0)
FileWrite(f, pos, b) ==
    LET n == Max(Len(f), pos + Len(b))
    IN  [i \in 1..n |->
            IF i > pos /\ i <= pos + Len(b) THEN b[i - pos]
            ELSE IF i <= Len(f) THEN f[i] ELSE 0]

(* ---------------------------------------------------------------------- *)
(* readDatum and the scan loop of NewStorage                              *)
(* ---------------------------------------------------------------------- *)

\* Faulty variant: the cursor s.idx stays where it is over a tombstoned record.
readDatumSkipKeepsIdx(f, pos, idx) ==
    LET hdr == FileRead(f, pos, metaSize)
        n == Len(hdr)
        m == MetaFromBytes(CopyInto(metaSize, hdr))
        totalSize == uint32(m.keySize + m.valSize)
        body == FileRead(f, pos + n, totalSize)
    IN  IF n = 0
        THEN [kind |-> "eof", pos |-> pos, idx |-> idx]
        ELSE IF m.deleted = 1
        THEN [kind |-> "skip", pos |-> pos + n + totalSize, idx |-> idx]
        ELSE IF Len(body) # totalSize
        THEN [kind |-> "err", pos |-> pos + n + Len(body), idx |-> idx]
        ELSE LET d == [keySize |-> m.keySize, valSize |-> m.valSize,
                       deleted |-> m.deleted,
                       key |-> SubSeq(body, 1, m.keySize),
                       value |-> SubSeq(body, m.keySize + 1, m.keySize + m.valSize),
                       idx |-> idx]
             IN  [kind |-> "datum", pos |-> pos + n + Len(body),
                  idx |-> uint32(idx + Size(d)), d |-> d]

\* Faulty variant: a record whose body is cut short ends the scan like EOF.
readDatumTailIsEOF(f, pos, idx) ==
    LET hdr == FileRead(f, pos, metaSize)
        n == Len(hdr)
        m == MetaFromBytes(CopyInto(metaSize, hdr))
        totalSize == uint32(m.keySize + m.valSize)
        body == FileRead(f, pos + n, totalSize)
    IN  IF n = 0 \/ (m.deleted # 1 /\ Len(body) # totalSize)
        THEN [kind |-> "eof", pos |-> pos, idx |-> idx]
        ELSE IF m.deleted = 1
        THEN [kind |-> "skip", pos |-> pos + n + totalSize,
              idx |-> uint32(idx + totalSize + metaSize)]
        ELSE LET d == [keySize |-> m.keySize, valSize |-> m.valSize,
                       deleted |-> m.deleted,
                       key |-> SubSeq(body, 1, m.keySize),
                       value |-> SubSeq(body, m.keySize + 1, m.keySize + m.valSize),
                       idx |-> idx]
             IN  [kind |-> "datum", pos |-> pos + n + Len(body),
                  idx |-> uint32(idx + Size(d)), d |-> d]

\* Faulty variant: a live record is stamped with the cursor after the record.
readDatumStampsNext(f, pos, idx) ==
    LET hdr == FileRead(f, pos, metaSize)
        n == Len(hdr)
        m == MetaFromBytes(CopyInto(metaSize, hdr))
        totalSize == uint32(m.keySize + m.valSize)
        body == FileRead(f, pos + n, totalSize)
    IN  IF n = 0
        THEN [kind |-> "eof", pos |-> pos, idx |-> idx]
        ELSE IF m.deleted = 1
        THEN [kind |-> "skip", pos |-> pos + n + totalSize,
              idx |-> uint32(idx + totalSize + metaSize)]
        ELSE IF Len(body) # totalSize
        THEN [kind |-> "err", pos |-> pos + n + Len(body), idx |-> idx]
        ELSE LET d == [keySize |-> m.keySize, valSize |-> m.valSize,
                       deleted |-> m.deleted,
                       key |-> SubSeq(body, 1, m.keySize),
                       value |-> SubSeq(body, m.keySize + 1, m.keySize + m.valSize),
                       idx |-> uint32(idx + totalSize + metaSize)]
             IN  [kind |-> "datum", pos |-> pos + n + Len(body),
                  idx |-> uint32(idx + Size(d)), d |-> d]

\* Storage.readDatum at file position pos with cursor s.idx = idx.
\* kind: "eof", "skip" (tombstoned: nil, nil), "datum", "err" (short body),
\* "panic" (slice out of range in KeyValFromBytes).
readDatum(f, pos, idx) ==
    LET hdr == FileRead(f, pos, metaSize)
        n == Len(hdr)
        buf == CopyInto(metaSize, hdr)
        m == MetaFromBytes(buf)
        pos1 == pos + n
        totalSize == uint32(m.keySize + m.valSize)
        body == FileRead(f, pos1, totalSize)
    IN  IF n = 0
        THEN [kind |-> "eof", pos |-> pos, idx |-> idx]
        ELSE IF m.deleted = 1
        THEN [kind |-> "skip", pos |-> pos1 + totalSize,
              idx |-> uint32(idx + totalSize + metaSize)]
        ELSE IF Len(body) # totalSize
        THEN [kind |-> "err", pos |-> pos1 + Len(body), idx |-> idx]
        ELSE IF m.keySize > Len(body)
        THEN [kind |-> "panic", pos |-> pos1 + Len(body), idx |-> idx]
        ELSE LET d == [keySize |-> m.keySize, valSize |-> m.valSize,
                       deleted |-> m.deleted,
                       key |-> SubSeq(body, 1, m.keySize),
                       value |-> SubSeq(body, m.keySize + 1, m.keySize + m.valSize),
                       idx |-> idx]
             IN  [kind |-> "datum", pos |-> pos1 + Len(body),
                  idx |-> uint32(idx + Size(d)), d |-> d]

\* Faulty variant: a key that is in the map keeps its datum.
MapStoreKeepsFirst(m, key, a) ==
    [k \in DOMAIN m \cup {key} |-> IF k \in DOMAIN m THEN m[k] ELSE a]

\* muMap.Store on the map value (key -> heap address)
MapStore(m, key, a) ==
    [k \in DOMAIN m \cup {key} |-> IF k = key THEN a ELSE m[k]]

\* Faulty variant: the key is left in the map.
MapDeleteKeeps(m, key) == m

\* Faulty variant: every key is taken out of the map.
MapDeleteAll(m, key) == [k \in {} |-> 0]

\* delete(m.data, key)
MapDelete(m, key) == [k \in DOMAIN m \ {key} |-> m[k]]

EmptyMap == [k \in {} |-> 0]

\* The loop of NewStorage (storage.go:51-61) from position pos: every live
\* datum read is a fresh heap object, stored in the map under its key.
RECURSIVE ScanLoop(_, _, _, _, _)
ScanLoop(f, pos, idx, hp, m) ==
    LET r == readDatum(f, pos, idx)
    IN  IF r.kind = "eof"
        THEN [ok |-> TRUE, err |-> "nil", heap |-> hp, data |-> m, idx |-> r.idx]
        ELSE IF r.kind \in {"err", "panic"}
        THEN [ok |-> FALSE, err |-> r.kind, heap |-> hp, data |-> m, idx |-> r.idx]
        ELSE IF r.kind = "skip"
        THEN ScanLoop(f, r.pos, r.idx, hp, m)
        ELSE ScanLoop(f, r.pos, r.idx, Append(hp, r.d),
                      MapStore(m, r.d.key, Len(hp) + 1))

\* NewStorage on the bytes of the named file
NewStorage(f) == ScanLoop(f, 0, 0, << >>, EmptyMap)

\* The records a database file is made of: a key, a value, live or tombstoned
Records ==
    {[NewDatum(k, v) EXCEPT !.deleted = del] : k \in Keys, v \in Vals, del \in {0, 1}}

\* The well-formed files of at most n records: concatenations of complete
\* records, as a Storage leaves them behind
RECURSIVE WellFormed(_)
WellFormed(n) ==
    IF n = 0 THEN {<< >>}
    ELSE LET W == WellFormed(n - 1)
         IN  W \cup {f \o Bytes(r) : f \in W, r \in Records}

\* The well-formed files of at most n records with a non-empty value
RECURSIVE WellFormedValued(_)
WellFormedValued(n) ==
    IF n = 0 THEN {<< >>}
    ELSE LET W == WellFormedValued(n - 1)
         IN  W \cup {f \o Bytes(r) : f \in W, r \in {x \in Records : x.valSize > 0}}

\* Files whose last record is live, has its whole header and is cut inside
\* its body (a partially written tail)
ShortBody ==
    UNION {{f \o SubSeq(Bytes(r), 1, n) : n \in metaSize..(Len(Bytes(r)) - 1)} :
              f \in WellFormed(MaxRecs - 1), r \in {x \in Records : x.deleted = 0}}

\* Files that end inside the header of their last record: 1 to 8 bytes of
\* the header of a live record (the empty key included, which Set accepts)
\* after the last complete record
ShortHeader ==
    UNION {{f \o SubSeq(Bytes(NewDatum(k, v)), 1, n) : n \in 1..(metaSize - 1)} :
              f \in WellFormed(MaxRecs - 1), k \in Keys \cup {<< >>}, v \in Vals}

\* The files NewStorage is called on
OpenFiles == WellFormed(MaxRecs) \cup ShortBody

\* The loop of vacuum (storage.go:270-283): the cleaned temp file
RECURSIVE VacuumLoop(_, _, _, _)
VacuumLoop(f, pos, idx, cleaned) ==
    LET r == readDatum(f, pos, idx)
    IN  IF r.kind = "eof"
        THEN [ok |-> TRUE, cleaned |-> cleaned, idx |-> r.idx]
        ELSE IF r.kind \in {"err", "panic"}
        THEN [ok |-> FALSE, cleaned |-> cleaned, idx |-> r.idx]
        ELSE IF r.kind = "skip"
        THEN VacuumLoop(f, r.pos, r.idx, cleaned)
        ELSE VacuumLoop(f, r.pos, r.idx, cleaned \o Bytes(r.d))

(* ---------------------------------------------------------------------- *)
(* State                                                                  *)
(* ---------------------------------------------------------------------- *)

VARIABLES
    file,              \* bytes of the database file on disk
    status,            \* "none" (file on disk, NewStorage not yet called), "open",
                       \* "closed" (after Close), "failed" (NewStorage closed the
                       \* file and returned nil)
    dirty,             \* TRUE when a write has not been followed by file.Sync
    idx,               \* Storage.idx, the scan cursor
    writeCountSync,    \* Storage.writeCountSync
    writeCountVacuum,  \* Storage.writeCountVacuum
    muFile,            \* Storage.muFile: 0 when free, else the goroutine holding it
    heap,              \* the datums allocated by this Storage (a *datum is an address)
    data,              \* Storage.data.data: key -> address of its datum
    rlock,             \* goroutines holding Storage.data.mu for reading across steps
    vacuumBatch,       \* config.VacuumBatch
    fsyncBatch,        \* config.FsyncBatch
    snap,              \* bytes of the snapshot file
    pc,                \* per goroutine: where it is in its call
    loc,               \* per goroutine: the locals of its call
    ret,               \* per goroutine: what its last call returned
    nsets,             \* history: number of Set calls made
    expected,          \* history: key -> value by last-write-wins over returned calls
    nmaint,            \* history: number of vacuum and Snapshot calls made
    nopens,            \* history: number of times the file was opened again
    kvAtClose,         \* history: the index contents when Close returned nil
    snapAt,            \* history: the index contents when Snapshot took the read lock
    snapPre,           \* history: file, map and heap when Snapshot was called
    lastAcq,           \* history: key -> the call that last took muFile for that key
    getObs,            \* history: per goroutine in Get, what ran next to its Get
    acqSeq,            \* history: the appends in the order they took muFile, since
                       \* the file was opened or compacted
    codec,             \* the record codec on its own: a record, its bytes, the decoded record
    scan,              \* readDatum called step by step on the open file: the file
                       \* position and what the last call returned
    wide               \* an append to a file given by its size alone, which may
                       \* be 4 GiB and more: size, record, stamped offset, error

fileVars == << file, status, dirty, idx, writeCountSync, writeCountVacuum, muFile >>
memVars == << heap, data, rlock >>
cfgVars == << vacuumBatch, fsyncBatch >>
thrVars == << pc, loc, ret >>
histVars == << nsets, expected, nmaint, nopens, kvAtClose, snapAt, snapPre, lastAcq >>
obsVars == << getObs, codec, acqSeq, scan, wide, wide >>
vars == << fileVars, memVars, cfgVars, snap, thrVars, histVars, obsVars >>

Threads == DOMAIN pc

\* Errors of the calls: os.ErrClosed, as Seek and Sync return it on a closed
\* file (wrapped by the caller), and the package's ErrDBClosed.
ErrClosed == "file already closed"
ErrDBClosed == "database is closed"

NoLoc == [key |-> << >>, val |-> << >>, d |-> 0, todo |-> {}, op |-> "", cont |-> "",
          cleanedSize |-> 0]
NoRet == [op |-> "", key |-> << >>, err |-> "", val |-> << >>, ok |-> FALSE]
None == [none |-> TRUE]

\* What Get reports for every key: Storage.Get reads val.value of the map entry
KV(m, hp) == [k \in DOMAIN m |-> hp[m[k]].value]

\* Faulty variant: a datum marked deleted is reported as not found.
GetUnlessDeleted(m, hp, key) ==
    IF key \in DOMAIN m /\ hp[m[key]].deleted # 1
    THEN [val |-> hp[m[key]].value, ok |-> TRUE]
    ELSE [val |-> << >>, ok |-> FALSE]

\* Storage.Get(key) on map m and heap hp
Get(m, hp, key) ==
    IF key \in DOMAIN m
    THEN [val |-> hp[m[key]].value, ok |-> TRUE]
    ELSE [val |-> << >>, ok |-> FALSE]

\* History functions: f with k bound to v, and f without k
Put(f, k, v) == [x \in DOMAIN f \cup {k} |-> IF x = k THEN v ELSE f[x]]
Drop(f, k) == [x \in DOMAIN f \ {k} |-> f[x]]

\* History of the Get calls: goroutine t calls Get(k).  Recorded are whether
\* the index holds k at the call, the values a Get may then return (the value
\* of the index at the call and the values of the Set(k, _) calls of other
\* goroutines running at the call), and whether a Delete(k) runs next to it.
ObserveGet(t, k) ==
    LET others == Threads \ {t}
    IN  getObs' = [getObs EXCEPT ![t] =
            [present |-> k \in DOMAIN data,
             vals |-> (IF k \in DOMAIN data THEN {heap[data[k]].value} ELSE {})
                      \cup {loc[u].val : u \in {x \in others :
                                       loc[x].op = "set" /\ loc[x].key = k}},
             del |-> \E u \in others : loc[u].op = "delete" /\ loc[u].key = k]]

\* Goroutine t calls Set(k, v): every Get(k) of another goroutine that has
\* not yet loaded runs next to it.
ObserveSet(t, k, v) ==
    getObs' = [u \in Threads |->
                  IF u # t /\ pc[u] = "get_load" /\ loc[u].key = k
                  THEN [getObs[u] EXCEPT !.vals = @ \cup {v}]
                  ELSE getObs[u]]

\* Goroutine t calls Delete(k): likewise.
ObserveDelete(t, k) ==
    getObs' = [u \in Threads |->
                  IF u # t /\ pc[u] = "get_load" /\ loc[u].key = k
                  THEN [getObs[u] EXCEPT !.del = TRUE]
                  ELSE getObs[u]]

\* Goroutines blocked in data.mu.Lock(): a pending Lock holds back new readers
WWait == {t \in Threads : pc[t] \in {"store_wait", "lad_wait"}}

\* data.mu.RLock() can be taken
CanRLock == WWait = {}

\* data.mu.Lock() can be taken
CanLock == rlock = {}

InitStore(T, configs) ==
    /\ file = << >>
    /\ status = "open"
    /\ dirty = FALSE
    /\ idx = 0
    /\ writeCountSync = 0
    /\ writeCountVacuum = 0
    /\ muFile = 0
    /\ heap = << >>
    /\ data = EmptyMap
    /\ rlock = {}
    /\ \E c \in configs : vacuumBatch = c.VacuumBatch /\ fsyncBatch = c.FsyncBatch
    /\ snap = << >>
    /\ pc = [t \in T |-> "idle"]
    /\ loc = [t \in T |-> NoLoc]
    /\ ret = [t \in T |-> NoRet]
    /\ nsets = 0
    /\ expected = EmptyMap
    /\ nmaint = 0
    /\ nopens = 0
    /\ kvAtClose = None
    /\ snapAt = None
    /\ snapPre = None
    /\ lastAcq = EmptyMap
    /\ getObs = [t \in T |-> None]
    /\ acqSeq = << >>
    /\ codec = None
    /\ scan = None
    /\ wide = None

\* A file of the set files is on disk and NewStorage has not been called.
InitFile(T, files, configs) ==
    /\ file \in files
    /\ status = "none"
    /\ dirty = FALSE
    /\ idx = 0
    /\ writeCountSync = 0
    /\ writeCountVacuum = 0
    /\ muFile = 0
    /\ heap = << >>
    /\ data = EmptyMap
    /\ rlock = {}
    /\ \E c \in configs : vacuumBatch = c.VacuumBatch /\ fsyncBatch = c.FsyncBatch
    /\ snap = << >>
    /\ pc = [t \in T |-> "idle"]
    /\ loc = [t \in T |-> NoLoc]
    /\ ret = [t \in T |-> NoRet]
    /\ nsets = 0
    /\ expected = EmptyMap
    /\ nmaint = 0
    /\ nopens = 0
    /\ kvAtClose = None
    /\ snapAt = None
    /\ snapPre = None
    /\ lastAcq = EmptyMap
    /\ getObs = [t \in T |-> None]
    /\ acqSeq = << >>
    /\ codec = None
    /\ scan = None
    /\ wide = None

\* The codec on its own: a record to encode, no Storage in use.
InitCodec ==
    /\ codec \in {[step |-> "record", d |-> d] : d \in CodecRecords}
    /\ file = << >>
    /\ status = "none"
    /\ dirty = FALSE
    /\ idx = 0
    /\ writeCountSync = 0
    /\ writeCountVacuum = 0
    /\ muFile = 0
    /\ heap = << >>
    /\ data = EmptyMap
    /\ rlock = {}
    /\ vacuumBatch = 0
    /\ fsyncBatch = 0
    /\ snap = << >>
    /\ pc = [t \in SeqThreads |-> "idle"]
    /\ loc = [t \in SeqThreads |-> NoLoc]
    /\ ret = [t \in SeqThreads |-> NoRet]
    /\ nsets = 0
    /\ expected = EmptyMap
    /\ nmaint = 0
    /\ nopens = 0
    /\ kvAtClose = None
    /\ snapAt = None
    /\ snapPre = None
    /\ lastAcq = EmptyMap
    /\ getObs = [t \in SeqThreads |-> None]
    /\ acqSeq = << >>
    /\ scan = None
    /\ wide = None

\* The sizes of the database file for an append far into the file: at the
\* start, around the first 16-bit carry, on both sides of 2^32, and beyond
WideSizes ==
    {Pos64(hi, lo) : hi \in {0, 1, halfWord - 1, halfWord, halfWord + 1, 2 * halfWord},
                     lo \in {0, metaSize, halfWord - metaSize - 1, halfWord - 1}}

\* An open store with Config{0, 0} whose file has one of these sizes; of the
\* file only its size is kept.  A record of each key and value is about to
\* be appended by writeDatumToFile.
InitWide ==
    /\ wide \in {[step |-> "call", size |-> sz, d |-> NewDatum(k, v),
                  offset |-> None, err |-> "", stat |-> None] :
                     sz \in WideSizes, k \in Keys, v \in Vals}
    /\ file = << >>
    /\ status = "open"
    /\ dirty = FALSE
    /\ idx = 0
    /\ writeCountSync = 0
    /\ writeCountVacuum = 0
    /\ muFile = 0
    /\ heap = << >>
    /\ data = EmptyMap
    /\ rlock = {}
    /\ vacuumBatch = 0
    /\ fsyncBatch = 0
    /\ snap = << >>
    /\ pc = [t \in SeqThreads |-> "idle"]
    /\ loc = [t \in SeqThreads |-> NoLoc]
    /\ ret = [t \in SeqThreads |-> NoRet]
    /\ nsets = 0
    /\ expected = EmptyMap
    /\ nmaint = 0
    /\ nopens = 0
    /\ kvAtClose = None
    /\ snapAt = None
    /\ snapPre = None
    /\ lastAcq = EmptyMap
    /\ getObs = [t \in SeqThreads |-> None]
    /\ acqSeq = << >>
    /\ codec = None
    /\ scan = None

(* ---------------------------------------------------------------------- *)
(* Helpers of the actions                                                 *)
(* ---------------------------------------------------------------------- *)

\* Faulty variant: the file is synced only once the counter is past the batch.
incAndSyncLate(wcs, wcv, vb, fb) ==
    LET wcs1 == wcs + 1
        wcv1 == wcv + 1
    IN  IF vb > 0 /\ wcv1 >= vb
        THEN [vacuum |-> TRUE, wcs |-> wcs1, wcv |-> wcv1, sync |-> FALSE]
        ELSE IF fb > 0 /\ wcs1 > fb
        THEN [vacuum |-> FALSE, wcs |-> 0, wcv |-> wcv1, sync |-> TRUE]
        ELSE [vacuum |-> FALSE, wcs |-> wcs1, wcv |-> wcv1, sync |-> FALSE]

\* Faulty variant: a batch of 0 is a batch like any other, reached at once.
incAndSyncZeroIsBatch(wcs, wcv, vb, fb) ==
    LET wcs1 == wcs + 1
        wcv1 == wcv + 1
    IN  IF wcv1 >= vb
        THEN [vacuum |-> TRUE, wcs |-> wcs1, wcv |-> wcv1, sync |-> FALSE]
        ELSE IF wcs1 >= fb
        THEN [vacuum |-> FALSE, wcs |-> 0, wcv |-> wcv1, sync |-> TRUE]
        ELSE [vacuum |-> FALSE, wcs |-> wcs1, wcv |-> wcv1, sync |-> FALSE]

\* Storage.incAndSync up to the point where it returns or calls s.vacuum():
\* both counters are incremented; vacuum is entered when the vacuum batch is
\* reached, else the file is synced when the fsync batch is reached.
incAndSync(wcs, wcv, vb, fb) ==
    LET wcs1 == wcs + 1
        wcv1 == wcv + 1
    IN  IF vb > 0 /\ wcv1 >= vb
        THEN [vacuum |-> TRUE, wcs |-> wcs1, wcv |-> wcv1, sync |-> FALSE]
        ELSE IF fb > 0 /\ wcs1 >= fb
        THEN [vacuum |-> FALSE, wcs |-> 0, wcv |-> wcv1, sync |-> TRUE]
        ELSE [vacuum |-> FALSE, wcs |-> wcs1, wcv |-> wcv1, sync |-> FALSE]

\* The rest of incAndSync after s.vacuum() has returned nil (storage.go:228-236)
afterVacuum(wcs, fb) ==
    IF fb > 0 /\ wcs >= fb
    THEN [wcs |-> 0, wcv |-> 0, sync |-> TRUE]
    ELSE [wcs |-> wcs, wcv |-> 0, sync |-> FALSE]

\* The public call of goroutine t returns err ("nil" is success); the history
\* of returned calls is extended.
Finish(t, err) ==
    /\ pc' = [pc EXCEPT ![t] = "done"]
    /\ loc' = [loc EXCEPT ![t] = NoLoc]
    /\ ret' = [ret EXCEPT ![t] = [op |-> loc[t].op, key |-> loc[t].key, err |-> err,
                                  val |-> << >>, ok |-> FALSE]]
    /\ expected' = IF err # "nil" THEN expected
                   ELSE IF loc[t].op = "set"
                   THEN Put(expected, loc[t].key, loc[t].val)
                   ELSE IF loc[t].op = "delete"
                   THEN Drop(expected, loc[t].key)
                   ELSE expected

\* Goroutine t goes on to step next of its call, or returns nil when the call
\* has no further step.
Proceed(t, next) ==
    IF next = "return"
    THEN Finish(t, "nil")
    ELSE /\ pc' = [pc EXCEPT ![t] = next]
         /\ UNCHANGED << loc, ret, expected >>

\* Goroutine t starts a public call.
Begin(t, op, key, val, first) ==
    /\ pc[t] = "idle"
    /\ status \in {"open", "closed"}
    /\ pc' = [pc EXCEPT ![t] = first]
    /\ loc' = [loc EXCEPT ![t] = [NoLoc EXCEPT !.op = op, !.key = key, !.val = val]]
    /\ UNCHANGED << ret, snap, snapAt, snapPre >>

\* The caller of goroutine t has taken the result of its call.  After a
\* Snapshot the history of that Snapshot is dropped, and the snapshot file
\* with it (the Storage never reads it; the next Snapshot removes it).
Return(t) ==
    /\ pc[t] = "done"
    /\ pc' = [pc EXCEPT ![t] = "idle"]
    /\ ret' = [ret EXCEPT ![t] = NoRet]
    /\ snapAt' = IF ret[t].op = "snapshot" THEN None ELSE snapAt
    /\ snapPre' = IF ret[t].op = "snapshot" THEN None ELSE snapPre
    /\ snap' = IF ret[t].op = "snapshot" THEN << >> ELSE snap
    /\ getObs' = [getObs EXCEPT ![t] = None]
    /\ UNCHANGED << fileVars, memVars, cfgVars, codec, acqSeq, scan, wide, loc, nsets, expected, nmaint,
                    nopens, kvAtClose, lastAcq >>

\* The tail of writeDeletedByte and writeDatumToFile: incAndSync under muFile,
\* then the deferred Unlock, unless incAndSync has entered vacuum, which
\* finds muFile held by its own caller.
WriteTail(t, next) ==
    LET r == incAndSync(writeCountSync, writeCountVacuum, vacuumBatch, fsyncBatch)
    IN  /\ writeCountSync' = r.wcs
        /\ writeCountVacuum' = r.wcv
        /\ dirty' = ~r.sync
        /\ IF r.vacuum
           THEN /\ muFile' = t
                /\ pc' = [pc EXCEPT ![t] = "vacuum"]
                /\ loc' = [loc EXCEPT ![t].cont = next]
                /\ UNCHANGED << ret, expected >>
           ELSE /\ muFile' = 0
                /\ Proceed(t, next)

(* ---------------------------------------------------------------------- *)
(* Set  (storage.go:77-84, 162-193, 241-249)                              *)
(* ---------------------------------------------------------------------- *)

SetCall(t) ==
    \E k \in Keys, v \in Vals :
        /\ nsets < MaxSets
        /\ Begin(t, "set", k, v, "set_load")
        /\ nsets' = nsets + 1
        /\ ObserveSet(t, k, v)
        /\ UNCHANGED << fileVars, memVars, cfgVars, codec, acqSeq, scan, wide, expected, nmaint, nopens,
                        kvAtClose, lastAcq >>

\* Faulty variant: Set goes to appendDatum without reclaiming the old datum.
SetLoadNoReclaim(t) ==
    /\ pc[t] = "set_load"
    /\ CanRLock
    /\ pc' = [pc EXCEPT ![t] = "store"]
    /\ UNCHANGED << fileVars, memVars, cfgVars, obsVars, snap, loc, ret, histVars >>

\* s.data.Load(key) in Set: found, go on to reclaimSpace, else to appendDatum
SetLoad(t) ==
    /\ pc[t] = "set_load"
    /\ CanRLock
    /\ IF loc[t].key \in DOMAIN data
       THEN /\ pc' = [pc EXCEPT ![t] = "mark"]
            /\ loc' = [loc EXCEPT ![t].d = data[loc[t].key]]
       ELSE /\ pc' = [pc EXCEPT ![t] = "store"]
            /\ loc' = loc
    /\ UNCHANGED << fileVars, memVars, cfgVars, obsVars, snap, ret, histVars >>

\* reclaimSpace: d.MarkDeleted(), on the datum itself, under no lock
MarkDeleted(t) ==
    /\ pc[t] = "mark"
    /\ heap' = [heap EXCEPT ![loc[t].d].deleted = 1]
    /\ pc' = [pc EXCEPT ![t] = "tomb"]
    /\ UNCHANGED << fileVars, data, rlock, cfgVars, obsVars, snap, loc, ret, histVars >>

\* The offset of the deleted byte of the record at offset i (storage.go:200)
delIdx(i) == i + metaSize - 1

\* writeDeletedByte(d): under muFile, seek to d.idx + metaSize - 1 and write
\* the one byte d.Deleted(); a closed file fails the Seek.
writeDeletedByte(t) ==
    /\ pc[t] = "tomb"
    /\ muFile = 0
    /\ lastAcq' = Put(lastAcq, loc[t].key, [op |-> loc[t].op, val |-> loc[t].val])
    /\ IF status # "open"
       THEN /\ Finish(t, ErrClosed)
            /\ UNCHANGED fileVars
       ELSE LET at == delIdx(heap[loc[t].d].idx)
            IN  /\ file' = FileWrite(file, at, << heap[loc[t].d].deleted >>)
                /\ WriteTail(t, IF loc[t].op = "set" THEN "store" ELSE "return")
                /\ UNCHANGED << status, idx >>
    /\ UNCHANGED << memVars, cfgVars, obsVars, snap, nsets, nmaint, nopens, kvAtClose, snapAt, snapPre >>

\* appendDatum: newDatum, d.Set(key, value), s.data.Store(key, d).  Store
\* takes data.mu for writing: behind a reader it waits, as a pending writer.
Store(t) ==
    /\ pc[t] \in {"store", "store_wait"}
    /\ IF CanLock
       THEN /\ heap' = Append(heap, NewDatum(loc[t].key, loc[t].val))
            /\ data' = MapStore(data, loc[t].key, Len(heap) + 1)
            /\ loc' = [loc EXCEPT ![t].d = Len(heap) + 1]
            /\ pc' = [pc EXCEPT ![t] = "write"]
       ELSE /\ pc[t] = "store"
            /\ pc' = [pc EXCEPT ![t] = "store_wait"]
            /\ UNCHANGED << heap, data, loc >>
    /\ UNCHANGED << fileVars, rlock, cfgVars, obsVars, snap, ret, histVars >>

\* Faulty variant: the record is written at the cursor s.idx, not at the end
\* of the file.
writeDatumAtIdx(t) ==
    /\ pc[t] = "write"
    /\ muFile = 0
    /\ lastAcq' = Put(lastAcq, loc[t].key, [op |-> loc[t].op, val |-> loc[t].val])
    /\ IF status # "open"
       THEN /\ Finish(t, ErrClosed)
            /\ UNCHANGED << fileVars, heap, acqSeq >>
       ELSE LET offset == idx
            IN  /\ heap' = [heap EXCEPT ![loc[t].d].idx = uint32(offset)]
                /\ file' = FileWrite(file, offset, Bytes(heap'[loc[t].d]))
                /\ acqSeq' = Append(acqSeq, [key |-> loc[t].key, val |-> loc[t].val])
                /\ WriteTail(t, "return")
                /\ UNCHANGED << status, idx >>
    /\ UNCHANGED << data, rlock, cfgVars, getObs, codec, scan, wide, snap, nsets, nmaint, nopens, kvAtClose, snapAt, snapPre >>

\* writeDatumToFile(d) of the Storage: under muFile, seek to the end, stamp
\* d.idx, write d.Bytes(), incAndSync.
writeDatumToFile(t) ==
    /\ pc[t] = "write"
    /\ muFile = 0
    /\ lastAcq' = Put(lastAcq, loc[t].key, [op |-> loc[t].op, val |-> loc[t].val])
    /\ IF status # "open"
       THEN /\ Finish(t, ErrClosed)
            /\ UNCHANGED << fileVars, heap, acqSeq >>
       ELSE LET offset == Len(file)
            IN  /\ heap' = [heap EXCEPT ![loc[t].d].idx = uint32(offset)]
                /\ file' = FileWrite(file, offset, Bytes(heap'[loc[t].d]))
                /\ acqSeq' = Append(acqSeq, [key |-> loc[t].key, val |-> loc[t].val])
                /\ WriteTail(t, "return")
                /\ UNCHANGED << status, idx >>
    /\ UNCHANGED << data, rlock, cfgVars, getObs, codec, scan, wide, snap, nsets, nmaint, nopens, kvAtClose, snapAt, snapPre >>

(* ---------------------------------------------------------------------- *)
(* Delete (storage.go:89-96) and Get (storage.go:67-73)                   *)
(* ---------------------------------------------------------------------- *)

DeleteCall(t) ==
    \E k \in Keys :
        /\ Begin(t, "delete", k, << >>, "lad")
        /\ ObserveDelete(t, k)
        /\ UNCHANGED << fileVars, memVars, cfgVars, codec, acqSeq, scan, wide, nsets, expected, nmaint, nopens,
                        kvAtClose, lastAcq >>

\* Faulty variant: Delete of a key that is not in the index is an error.
LoadAndDeleteMissingFails(t) ==
    /\ pc[t] \in {"lad", "lad_wait"}
    /\ IF CanLock
       THEN IF loc[t].key \in DOMAIN data
            THEN /\ data' = MapDelete(data, loc[t].key)
                 /\ loc' = [loc EXCEPT ![t].d = data[loc[t].key]]
                 /\ pc' = [pc EXCEPT ![t] = "mark"]
                 /\ UNCHANGED << ret, expected >>
            ELSE /\ Finish(t, "not found")
                 /\ data' = data
       ELSE /\ pc[t] = "lad"
            /\ pc' = [pc EXCEPT ![t] = "lad_wait"]
            /\ UNCHANGED << data, loc, ret, expected >>
    /\ UNCHANGED << fileVars, heap, rlock, cfgVars, obsVars, snap, nsets, nmaint, nopens,
                    kvAtClose, snapAt, snapPre, lastAcq >>

\* s.data.LoadAndDelete(key), under data.mu held for writing
LoadAndDelete(t) ==
    /\ pc[t] \in {"lad", "lad_wait"}
    /\ IF CanLock
       THEN IF loc[t].key \in DOMAIN data
            THEN /\ data' = MapDelete(data, loc[t].key)
                 /\ loc' = [loc EXCEPT ![t].d = data[loc[t].key]]
                 /\ pc' = [pc EXCEPT ![t] = "mark"]
                 /\ UNCHANGED << ret, expected >>
            ELSE /\ Finish(t, "nil")
                 /\ data' = data
       ELSE /\ pc[t] = "lad"
            /\ pc' = [pc EXCEPT ![t] = "lad_wait"]
            /\ UNCHANGED << data, loc, ret, expected >>
    /\ UNCHANGED << fileVars, heap, rlock, cfgVars, obsVars, snap, nsets, nmaint, nopens,
                    kvAtClose, snapAt, snapPre, lastAcq >>

GetCall(t) ==
    \E k \in Keys :
        /\ Begin(t, "get", k, << >>, "get_load")
        /\ ObserveGet(t, k)
        /\ UNCHANGED << fileVars, memVars, cfgVars, codec, acqSeq, scan, wide, nsets, expected, nmaint, nopens,
                        kvAtClose, lastAcq >>

\* s.data.Load(key) in Get, and the return of val.value
GetLoad(t) ==
    /\ pc[t] = "get_load"
    /\ CanRLock
    /\ pc' = [pc EXCEPT ![t] = "done"]
    /\ loc' = [loc EXCEPT ![t] = NoLoc]
    /\ LET g == Get(data, heap, loc[t].key)
       IN  ret' = [ret EXCEPT ![t] = [op |-> "get", key |-> loc[t].key, err |-> "nil",
                                      val |-> g.val, ok |-> g.ok]]
    /\ UNCHANGED << fileVars, memVars, cfgVars, obsVars, snap, histVars >>

(* ---------------------------------------------------------------------- *)
(* Snapshot (storage.go:129-158)                                          *)
(* ---------------------------------------------------------------------- *)

\* One snapshot path is modelled, so one Snapshot runs at a time.
SnapshotCall(t) ==
    /\ \A u \in Threads : loc[u].op # "snapshot"
    /\ nmaint < MaxMaint
    /\ nmaint' = nmaint + 1
    /\ Begin(t, "snapshot", << >>, << >>, "snap_rlock")
    /\ UNCHANGED << fileVars, memVars, cfgVars, obsVars, nsets, expected, nopens,
                    kvAtClose, lastAcq >>

\* s.data.RLock(), os.Remove(snapname), NewStorage(snapname): the snapshot
\* file is new and empty, and the range over s.data.data starts.
SnapshotRLock(t) ==
    /\ pc[t] = "snap_rlock"
    /\ CanRLock
    /\ rlock' = rlock \cup {t}
    /\ snap' = << >>
    /\ loc' = [loc EXCEPT ![t].todo = DOMAIN data]
    /\ pc' = [pc EXCEPT ![t] = "snap_range"]
    /\ snapAt' = KV(data, heap)
    /\ snapPre' = [file |-> file, data |-> data, heap |-> heap]
    /\ UNCHANGED << fileVars, heap, data, cfgVars, obsVars, ret, nsets, expected, nmaint, nopens,
                    kvAtClose, lastAcq >>

\* Faulty variant: every datum is written at the start of the snapshot file.
snapWriteAtStart(hp, a, sf) ==
    LET hp1 == [hp EXCEPT ![a].idx = 0]
    IN  [heap |-> hp1, snap |-> FileWrite(sf, 0, Bytes(hp1[a]))]

\* snap.writeDatumToFile(v) of the snapshot's own Storage: stamps v.idx with
\* the end of the snapshot file and appends v.Bytes() to it.
snapWrite(hp, a, sf) ==
    LET hp1 == [hp EXCEPT ![a].idx = uint32(Len(sf))]
    IN  [heap |-> hp1, snap |-> FileWrite(sf, Len(sf), Bytes(hp1[a]))]

\* One iteration of the range over the map, in any order: an entry whose
\* datum is not marked deleted is written to the snapshot.
SnapshotRange(t) ==
    /\ pc[t] = "snap_range"
    /\ \E k \in loc[t].todo :
          LET a == data[k]
              w == snapWrite(heap, a, snap)
          IN  /\ loc' = [loc EXCEPT ![t].todo = loc[t].todo \ {k}]
              /\ IF heap[a].deleted # 1
                 THEN /\ heap' = w.heap
                      /\ snap' = w.snap
                 ELSE UNCHANGED << heap, snap >>
    /\ UNCHANGED << fileVars, data, rlock, cfgVars, obsVars, pc, ret, nsets, expected,
                    nmaint, nopens, kvAtClose, snapAt, snapPre, lastAcq >>

\* Faulty variant: Snapshot returns without the RUnlock.
SnapshotCloseNoRUnlock(t) ==
    /\ pc[t] = "snap_range"
    /\ loc[t].todo = {}
    /\ Finish(t, "nil")
    /\ UNCHANGED << fileVars, memVars, cfgVars, obsVars, snap, nsets, nmaint, nopens,
                    kvAtClose, snapAt, snapPre, lastAcq >>

\* The range is over: snap.Close(), the deferred s.data.RUnlock(), return.
SnapshotClose(t) ==
    /\ pc[t] = "snap_range"
    /\ loc[t].todo = {}
    /\ rlock' = rlock \ {t}
    /\ Finish(t, "nil")
    /\ UNCHANGED << fileVars, heap, data, cfgVars, obsVars, snap, nsets, nmaint, nopens,
                    kvAtClose, snapAt, snapPre, lastAcq >>

(* ---------------------------------------------------------------------- *)
(* vacuum (storage.go:252-314), Close (storage.go:99-114), re-open        *)
(* ---------------------------------------------------------------------- *)

\* A direct call of s.vacuum(), as the package's test makes it.
VacuumCall(t) ==
    /\ nmaint < MaxMaint
    /\ nmaint' = nmaint + 1
    /\ Begin(t, "vacuum", << >>, << >>, "vacuum")
    /\ UNCHANGED << fileVars, memVars, cfgVars, obsVars, nsets, expected, nopens,
                    kvAtClose, lastAcq >>

\* Faulty variant: the cleaned bytes are copied back and the file is not
\* truncated.
vacuumNoTruncate(f, i) ==
    LET r == VacuumLoop(f, 0, i, << >>)
    IN  IF r.ok
        THEN [ok |-> TRUE, file |-> FileWrite(f, 0, r.cleaned),
              idx |-> uint32(Len(r.cleaned))]
        ELSE [ok |-> FALSE, file |-> f, idx |-> r.idx]

\* The body of vacuum once muFile is taken: the file after the copy back
\* and the truncate, and the cursor.  A failed scan leaves the file as is.
vacuum(f, i) ==
    LET r == VacuumLoop(f, 0, i, << >>)
    IN  IF r.ok
        THEN [ok |-> TRUE, file |-> r.cleaned, idx |-> uint32(Len(r.cleaned))]
        ELSE [ok |-> FALSE, file |-> f, idx |-> r.idx]

\* s.vacuum(): s.muFile.Lock(), then the body.  Called from incAndSync
\* (cont # "") the rest of incAndSync and of the write follows.
Vacuum(t) ==
    /\ pc[t] = "vacuum"
    /\ muFile = 0
    /\ IF status # "open"
       THEN /\ Finish(t, ErrClosed)
            /\ UNCHANGED << fileVars, acqSeq >>
       ELSE LET r == vacuum(file, idx)
                a == afterVacuum(writeCountSync, fsyncBatch)
            IN  /\ file' = r.file
                /\ idx' = r.idx
                /\ acqSeq' = IF r.ok THEN << >> ELSE acqSeq
                /\ UNCHANGED << status, muFile >>
                /\ IF ~r.ok
                   THEN /\ Finish(t, "scan")
                        /\ UNCHANGED << dirty, writeCountSync, writeCountVacuum >>
                   ELSE IF loc[t].cont = ""
                   THEN /\ Finish(t, "nil")
                        /\ dirty' = TRUE
                        /\ UNCHANGED << writeCountSync, writeCountVacuum >>
                   ELSE /\ Proceed(t, loc[t].cont)
                        /\ writeCountSync' = a.wcs
                        /\ writeCountVacuum' = a.wcv
                        /\ dirty' = ~a.sync
    /\ UNCHANGED << memVars, cfgVars, getObs, codec, scan, wide, snap, nsets, nmaint, nopens,
                    kvAtClose, snapAt, snapPre, lastAcq >>

\* Faulty variant: vacuum runs without taking muFile.
VacuumLockFree(t) ==
    /\ pc[t] = "vacuum"
    /\ IF status # "open"
       THEN /\ Finish(t, ErrClosed)
       ELSE /\ pc' = [pc EXCEPT ![t] = "vac_copy"]
            /\ UNCHANGED << loc, ret, expected >>
    /\ UNCHANGED << fileVars, memVars, cfgVars, obsVars, snap, nsets, nmaint, nopens,
                    kvAtClose, snapAt, snapPre, lastAcq >>

\* vacuum step by step, as other goroutines see it.  First s.muFile.Lock()
\* and the Seek to 0, which fails on a closed file.
VacuumLock(t) ==
    /\ pc[t] = "vacuum"
    /\ muFile = 0
    /\ IF status # "open"
       THEN /\ Finish(t, ErrClosed)
            /\ muFile' = muFile
       ELSE /\ muFile' = t
            /\ pc' = [pc EXCEPT ![t] = "vac_copy"]
            /\ UNCHANGED << loc, ret, expected >>
    /\ UNCHANGED << file, status, dirty, idx, writeCountSync, writeCountVacuum, memVars,
                    cfgVars, obsVars, snap, nsets, nmaint, nopens, kvAtClose, snapAt,
                    snapPre, lastAcq >>

\* Under muFile: the scan into the temp file, and the copy of the temp file
\* over the start of the database file (storage.go:270-303).  The file is
\* partially compacted: cleaned bytes, then what was there.
VacuumCopy(t) ==
    /\ pc[t] = "vac_copy"
    /\ LET r == VacuumLoop(file, 0, idx, << >>)
       IN  /\ idx' = r.idx
           /\ IF r.ok
              THEN /\ file' = FileWrite(file, 0, r.cleaned)
                   /\ loc' = [loc EXCEPT ![t].cleanedSize = Len(r.cleaned)]
                   /\ pc' = [pc EXCEPT ![t] = "vac_trunc"]
                   /\ UNCHANGED << muFile, ret, expected >>
              ELSE /\ Finish(t, "scan")
                   /\ muFile' = 0
                   /\ file' = file
    /\ UNCHANGED << status, dirty, writeCountSync, writeCountVacuum, memVars, cfgVars,
                    obsVars, snap, nsets, nmaint, nopens, kvAtClose, snapAt, snapPre,
                    lastAcq >>

\* Under muFile: s.file.Truncate(cleanedSize), s.idx = cleanedSize, then the
\* deferred Unlock (storage.go:306-313).
VacuumTruncate(t) ==
    /\ pc[t] = "vac_trunc"
    /\ file' = SubSeq(file, 1, loc[t].cleanedSize)
    /\ idx' = uint32(loc[t].cleanedSize)
    /\ muFile' = 0
    /\ dirty' = TRUE
    /\ acqSeq' = << >>
    /\ Finish(t, "nil")
    /\ UNCHANGED << status, writeCountSync, writeCountVacuum, memVars, cfgVars, getObs,
                    codec, scan, wide, snap, nsets, nmaint, nopens, kvAtClose, snapAt, snapPre,
                    lastAcq >>

CloseCall(t) ==
    /\ Begin(t, "close", << >>, << >>, "close")
    /\ UNCHANGED << fileVars, memVars, cfgVars, obsVars, nsets, expected, nmaint, nopens,
                    kvAtClose, lastAcq >>

\* Faulty variant: as if s.closed were a channel made by NewStorage, which
\* the second Close closes again.
CloseTwicePanics(t) ==
    /\ pc[t] = "close"
    /\ muFile = 0
    /\ IF status = "open"
       THEN /\ status' = "closed"
            /\ dirty' = FALSE
            /\ kvAtClose' = KV(data, heap)
            /\ Finish(t, "nil")
       ELSE /\ Finish(t, "panic")
            /\ UNCHANGED << status, dirty, kvAtClose >>
    /\ UNCHANGED << file, idx, writeCountSync, writeCountVacuum, muFile, memVars,
                    cfgVars, obsVars, snap, nsets, nmaint, nopens, snapAt, snapPre, lastAcq >>

\* Faulty variant: the file is closed without the Sync.
CloseNoSync(t) ==
    /\ pc[t] = "close"
    /\ muFile = 0
    /\ IF status = "open"
       THEN /\ status' = "closed"
            /\ dirty' = dirty
            /\ kvAtClose' = KV(data, heap)
            /\ Finish(t, "nil")
       ELSE /\ Finish(t, ErrClosed)
            /\ UNCHANGED << status, dirty, kvAtClose >>
    /\ UNCHANGED << file, idx, writeCountSync, writeCountVacuum, muFile, memVars,
                    cfgVars, obsVars, snap, nsets, nmaint, nopens, snapAt, snapPre, lastAcq >>

\* Close: under muFile, file.Sync() then file.Close(); on a closed file the
\* Sync fails.
Close(t) ==
    /\ pc[t] = "close"
    /\ muFile = 0
    /\ IF status = "open"
       THEN /\ status' = "closed"
            /\ dirty' = FALSE
            /\ kvAtClose' = KV(data, heap)
            /\ Finish(t, "nil")
       ELSE /\ Finish(t, ErrClosed)
            /\ UNCHANGED << status, dirty, kvAtClose >>
    /\ UNCHANGED << file, idx, writeCountSync, writeCountVacuum, muFile, memVars,
                    cfgVars, obsVars, snap, nsets, nmaint, nopens, snapAt, snapPre, lastAcq >>

\* NewStorage on the same path once the Storage is closed and no call runs:
\* a new Storage, its index rebuilt from the file.  A failed scan closes the
\* file and returns no Storage.
Reopen ==
    /\ status = "closed"
    /\ nopens < MaxOpens
    /\ nopens' = nopens + 1
    /\ kvAtClose' = None
    /\ \A t \in Threads : pc[t] = "idle"
    /\ LET s == NewStorage(file)
       IN  /\ status' = IF s.ok THEN "open" ELSE "failed"
           /\ heap' = s.heap
           /\ data' = s.data
           /\ idx' = s.idx
           /\ expected' = IF s.ok THEN KV(s.data, s.heap) ELSE EmptyMap
    /\ writeCountSync' = 0
    /\ writeCountVacuum' = 0
    /\ lastAcq' = EmptyMap
    /\ snapAt' = None
    /\ snapPre' = None
    /\ acqSeq' = << >>
    /\ UNCHANGED << file, dirty, muFile, rlock, cfgVars, getObs, codec, scan, wide, snap, pc, loc, ret,
                    nsets, nmaint >>

\* NewStorage on the file on disk: the struct is new (counters 0, cursor 0),
\* the index is built by the scan.  When a read fails, NewStorage closes the
\* file and returns nil and the error; it writes nothing.
Open ==
    /\ status = "none"
    /\ LET s == NewStorage(file)
       IN  /\ status' = IF s.ok THEN "open" ELSE "failed"
           /\ heap' = s.heap
           /\ data' = s.data
           /\ idx' = s.idx
           /\ expected' = IF s.ok THEN KV(s.data, s.heap) ELSE EmptyMap
    /\ writeCountSync' = 0
    /\ writeCountVacuum' = 0
    /\ UNCHANGED << file, dirty, muFile, rlock, cfgVars, obsVars, snap, thrVars, nsets,
                    nmaint, nopens, kvAtClose, snapAt, snapPre, lastAcq >>

\* The database file is opened for a scan by hand: s := &Storage{} with
\* s.file at position 0 and s.idx = 0.
ScanOpen ==
    /\ status = "none"
    /\ status' = "scan"
    /\ scan' = [pos |-> 0, kind |-> "open", d |-> None]
    /\ UNCHANGED << file, dirty, idx, writeCountSync, writeCountVacuum, muFile, memVars,
                    cfgVars, getObs, codec, acqSeq, wide, snap, thrVars, histVars >>

\* One call of s.readDatum() at the file position: the result, the new file
\* position and the new s.idx.  The scan stops at EOF and at an error.
ScanStep ==
    /\ status = "scan"
    /\ scan.kind \in {"open", "datum", "skip"}
    /\ LET r == readDatum(file, scan.pos, idx)
       IN  /\ idx' = r.idx
           /\ scan' = [pos |-> r.pos, kind |-> r.kind,
                       d |-> IF r.kind = "datum" THEN r.d ELSE None]
    /\ UNCHANGED << file, status, dirty, writeCountSync, writeCountVacuum, muFile, memVars,
                    cfgVars, getObs, codec, acqSeq, wide, snap, thrVars, histVars >>

\* b := d.Bytes()
Encode ==
    /\ codec.step = "record"
    /\ codec' = [step |-> "bytes", d |-> codec.d, b |-> Bytes(codec.d)]
    /\ UNCHANGED << fileVars, memVars, cfgVars, getObs, acqSeq, scan, wide, snap, thrVars, histVars >>

\* d2.meta.FromBytes(b[0:metaSize]), then d2.KeyValFromBytes(b[metaSize:])
Decode ==
    /\ codec.step = "bytes"
    /\ LET m == FromBytes(SubSeq(codec.b, 1, metaSize))
           kv == KeyValFromBytes(m, SubSeq(codec.b, metaSize + 1, Len(codec.b)))
       IN  codec' = [step |-> "back", d |-> codec.d, b |-> codec.b,
                     out |-> [err |-> IF m.err # "nil" THEN m.err ELSE kv.err,
                              keySize |-> m.keySize, valSize |-> m.valSize,
                              deleted |-> m.deleted, key |-> kv.key,
                              value |-> kv.value, idx |-> 0]]
    /\ UNCHANGED << fileVars, memVars, cfgVars, getObs, acqSeq, scan, wide, snap, thrVars, histVars >>

\* The error of fileSize for a file of more than math.MaxUint32 bytes
ErrTooLarge == "file size is too large"

\* Storage.writeDatumToFile on a file given by its size, with Config{0, 0}:
\* under muFile, offset is what Seek(0, 2) returns, the size of the file;
\* d.idx = uint32(offset); Write appends d.Bytes(), Size(d) bytes; incAndSync
\* counts the write, and nil is returned.
writeDatumToFileWide ==
    /\ wide.step = "call"
    /\ muFile = 0
    /\ status = "open"
    /\ LET offset == wide.size
           d == [wide.d EXCEPT !.idx = uint32Of(offset)]
           r == incAndSync(writeCountSync, writeCountVacuum, vacuumBatch, fsyncBatch)
       IN  /\ ~r.vacuum
           /\ wide' = [wide EXCEPT !.step = "done", !.d = d, !.offset = offset,
                                   !.size = Add64(offset, Size(d)), !.err = "nil"]
           /\ writeCountSync' = r.wcs
           /\ writeCountVacuum' = r.wcv
           /\ dirty' = ~r.sync
    /\ UNCHANGED << file, status, idx, muFile, memVars, cfgVars, getObs, codec, acqSeq, scan,
                    snap, thrVars, histVars >>

\* Storage.fileSize: the size of the file by Stat, an error when Stat fails
\* on a closed file and when the size is more than math.MaxUint32.  No call of the package reaches it; the package's
\* tests call it on the open store.
fileSize ==
    /\ wide # None
    /\ wide.stat = None
    /\ muFile = 0
    /\ wide' = [wide EXCEPT !.stat =
                   IF status # "open"
                   THEN [sz |-> Pos64(0, 0), err |-> ErrClosed]
                   ELSE IF AboveMaxUint32(wide.size)
                   THEN [sz |-> Pos64(0, 0), err |-> ErrTooLarge]
                   ELSE [sz |-> uint32Of(wide.size), err |-> "nil"]]
    /\ UNCHANGED << fileVars, memVars, cfgVars, getObs, codec, acqSeq, scan, snap, thrVars,
                    histVars >>

(* ---------------------------------------------------------------------- *)
(* Specifications                                                         *)
(* ---------------------------------------------------------------------- *)

\* The steps of Set, Delete and Get, and the hand-over of a result.
KVStep ==
    \/ \E t \in Threads : SetCall(t)
    \/ \E t \in Threads : SetLoad(t)
    \/ \E t \in Threads : MarkDeleted(t)
    \/ \E t \in Threads : writeDeletedByte(t)
    \/ \E t \in Threads : Store(t)
    \/ \E t \in Threads : writeDatumToFile(t)
    \/ \E t \in Threads : DeleteCall(t)
    \/ \E t \in Threads : LoadAndDelete(t)
    \/ \E t \in Threads : GetCall(t)
    \/ \E t \in Threads : GetLoad(t)
    \/ \E t \in Threads : Return(t)

SnapshotStep ==
    \/ \E t \in Threads : SnapshotCall(t)
    \/ \E t \in Threads : SnapshotRLock(t)
    \/ \E t \in Threads : SnapshotRange(t)
    \/ \E t \in Threads : SnapshotClose(t)

VacuumStep ==
    \/ \E t \in Threads : VacuumCall(t)
    \/ \E t \in Threads : Vacuum(t)

CloseStep ==
    \/ \E t \in Threads : CloseCall(t)
    \/ \E t \in Threads : Close(t)
    \/ Reopen

\* One goroutine, every call of the package: Set, Delete, Get, Snapshot,
\* vacuum, Close, and NewStorage again after Close; periodic vacuum and fsync
\* off or at their (scaled) defaults.
Init == InitStore(SeqThreads, {ConfigOff, ConfigDefault})
Next == KVStep \/ SnapshotStep \/ VacuumStep \/ CloseStep
Spec == Init /\ [][Next]_vars

\* One goroutine calling Set, Delete and Get on a new store, batches off.
InitOff == InitStore(SeqThreads, {ConfigOff})
SpecKV == InitOff /\ [][KVStep]_vars

\* One goroutine calling Set, Delete, Get and vacuum on a new store.
NextVacuum == KVStep \/ VacuumStep
SpecVacuum == InitOff /\ [][NextVacuum]_vars

\* One goroutine calling Set, Delete, Get and Snapshot on a new store.
NextSnapshot == KVStep \/ SnapshotStep
SpecSnapshot == InitOff /\ [][NextSnapshot]_vars

\* Several goroutines calling Set, Delete, Get and Snapshot, batches off.
InitConc == InitStore(ConcThreads, {ConfigOff})
SpecConc == InitConc /\ [][NextSnapshot]_vars

\* NewStorage on a file that exists: well-formed, or with a short body.
InitOpen == InitFile(SeqThreads, OpenFiles, {ConfigOff})
SpecOpen == InitOpen /\ [][Open]_vars

\* The calls that write: Set and Delete.
WriteStep ==
    \/ \E t \in Threads : SetCall(t)
    \/ \E t \in Threads : SetLoad(t)
    \/ \E t \in Threads : MarkDeleted(t)
    \/ \E t \in Threads : writeDeletedByte(t)
    \/ \E t \in Threads : Store(t)
    \/ \E t \in Threads : writeDatumToFile(t)
    \/ \E t \in Threads : DeleteCall(t)
    \/ \E t \in Threads : LoadAndDelete(t)
    \/ \E t \in Threads : Return(t)

\* NewStorage on a well-formed file (records live or tombstoned, of either
\* key), then one goroutine calling Set and Delete.
InitOpenKV == InitFile(SeqThreads, WellFormedValued(MaxRecs), {ConfigOff})
NextOpenKV == Open \/ WriteStep
SpecOpenKV == InitOpenKV /\ [][NextOpenKV]_vars

\* One goroutine calling Set, Delete and Get on a new store with periodic
\* fsync on and periodic vacuum off.
InitFsync == InitStore(SeqThreads, {ConfigFsync})
SpecFsync == InitFsync /\ [][KVStep]_vars

\* One goroutine calling Set, Delete, Get and Close, and NewStorage again
\* after Close; periodic fsync off or on, periodic vacuum off.
InitClose == InitStore(SeqThreads, {ConfigOff, ConfigFsync})
NextClose == KVStep \/ CloseStep
SpecClose == InitClose /\ [][NextClose]_vars

\* The codec: a record is encoded, its bytes decoded.
NextCodec == Encode \/ Decode
SpecCodec == InitCodec /\ [][NextCodec]_vars

\* An append to a large file, and fileSize before or after it.
NextWide == writeDatumToFileWide \/ fileSize
SpecWide == InitWide /\ [][NextWide]_vars

\* A single writer next to a reader (the README's "single writer, multiple
\* concurrent readers"): of the goroutines, the last calls Set and Delete and
\* every other calls Get.
TheWriter == CHOOSE w \in Threads : \A t \in Threads : t <= w

ReaderStep ==
    \/ \E t \in Threads \ {TheWriter} : GetCall(t)
    \/ \E t \in Threads \ {TheWriter} : GetLoad(t)
    \/ \E t \in Threads \ {TheWriter} : Return(t)

WriterStep ==
    \/ SetCall(TheWriter)
    \/ SetLoad(TheWriter)
    \/ MarkDeleted(TheWriter)
    \/ writeDeletedByte(TheWriter)
    \/ Store(TheWriter)
    \/ writeDatumToFile(TheWriter)
    \/ DeleteCall(TheWriter)
    \/ LoadAndDelete(TheWriter)
    \/ Return(TheWriter)

NextReadWrite == ReaderStep \/ WriterStep
SpecReadWrite == InitConc /\ [][NextReadWrite]_vars

\* vacuum in the steps other goroutines can run between, called by the
\* goroutines that are not the writer.
VacuumSteps ==
    \/ \E t \in Threads \ {TheWriter} : VacuumCall(t)
    \/ \E t \in Threads \ {TheWriter} : VacuumLock(t)
    \/ \E t \in Threads \ {TheWriter} : VacuumCopy(t)
    \/ \E t \in Threads \ {TheWriter} : VacuumTruncate(t)
    \/ \E t \in Threads \ {TheWriter} : Return(t)

\* One goroutine calling Set and Delete next to one calling vacuum, batches
\* off.
NextConcVacuum == WriterStep \/ VacuumSteps
SpecConcVacuum == InitConc /\ [][NextConcVacuum]_vars

\* The steps of goroutine t inside a call, from the step after the call to
\* the return.
Progress(t) ==
    \/ SetLoad(t) \/ MarkDeleted(t) \/ writeDeletedByte(t) \/ Store(t)
    \/ writeDatumToFile(t) \/ LoadAndDelete(t) \/ GetLoad(t)
    \/ SnapshotRLock(t) \/ SnapshotRange(t) \/ SnapshotClose(t) \/ Close(t)

\* The calls of the goroutines that are not the writer: Get, Snapshot, Close.
OtherStep ==
    \/ ReaderStep
    \/ \E t \in Threads \ {TheWriter} : SnapshotCall(t)
    \/ \E t \in Threads \ {TheWriter} : SnapshotRLock(t)
    \/ \E t \in Threads \ {TheWriter} : SnapshotRange(t)
    \/ \E t \in Threads \ {TheWriter} : SnapshotClose(t)
    \/ \E t \in Threads \ {TheWriter} : CloseCall(t)
    \/ \E t \in Threads \ {TheWriter} : Close(t)

\* One goroutine calling Set and Delete next to one calling Get, Snapshot
\* and Close, batches off, under a fair scheduler: a goroutine that can take
\* a step of its call takes it.
NextLive == WriterStep \/ OtherStep

FairLive == \A t \in ConcThreads : WF_vars(Progress(t))
SpecLive == InitConc /\ [][NextLive]_vars /\ FairLive

\* Three goroutines, batches off: the last calling Set and Delete, the
\* others calling Get, and the first of them Snapshot too.
TheSnapshotter == CHOOSE r \in Threads : \A t \in Threads : r <= t

SnapshotterStep ==
    \/ SnapshotCall(TheSnapshotter)
    \/ SnapshotRLock(TheSnapshotter)
    \/ SnapshotRange(TheSnapshotter)
    \/ SnapshotClose(TheSnapshotter)

InitTrio == InitStore(TrioThreads, {ConfigOff})
NextTrio == WriterStep \/ ReaderStep \/ SnapshotterStep
SpecTrio == InitTrio /\ [][NextTrio]_vars

\* readDatum called again and again on a well-formed file, up to EOF.
InitScan == InitFile(SeqThreads, WellFormed(MaxRecs), {ConfigOff})
NextScan == ScanOpen \/ ScanStep
SpecScan == InitScan /\ [][NextScan]_vars

\* NewStorage on a file that ends inside a header.
InitOpenShort == InitFile(SeqThreads, ShortHeader, {ConfigOff})
SpecOpenShort == InitOpenShort /\ [][Open]_vars

\* One goroutine calling Set, Delete and Get on a new store whose Config has
\* both batches off, periodic fsync alone, or periodic vacuum alone.
InitBatch == InitStore(SeqThreads, {ConfigOff, ConfigFsync, ConfigVacuum})
SpecBatch == InitBatch /\ [][KVStep]_vars

\* Several goroutines calling Set, Delete and Get, batches off.
SpecConcKV == InitConc /\ [][KVStep]_vars

\* Several goroutines calling Set, batches off.
SetStep ==
    \/ \E t \in Threads : SetCall(t)
    \/ \E t \in Threads : SetLoad(t)
    \/ \E t \in Threads : MarkDeleted(t)
    \/ \E t \in Threads : writeDeletedByte(t)
    \/ \E t \in Threads : Store(t)
    \/ \E t \in Threads : writeDatumToFile(t)
    \/ \E t \in Threads : Return(t)

SpecConcSet == InitConc /\ [][SetStep]_vars

\* Several goroutines calling Set and Delete, batches off.
SpecConcWrite == InitConc /\ [][WriteStep]_vars


(* ---------------------------------------------------------------------- *)
(* Properties                                                             *)
(* ---------------------------------------------------------------------- *)

\* No call of goroutine t is running.
Quiet(t) == pc[t] \in {"idle", "done"}

\* Number of records in file f from position pos on that are not tombstoned
\* and carry key k.
RECURSIVE LiveCount(_, _, _)
LiveCount(f, pos, k) ==
    LET r == readDatum(f, pos, 0)
    IN  IF r.kind \in {"eof", "err", "panic"} THEN 0
        ELSE IF r.kind = "skip" THEN LiveCount(f, r.pos, k)
        ELSE (IF r.d.key = k THEN 1 ELSE 0) + LiveCount(f, r.pos, k)

\* C1: after any sequence of Set and Delete calls made one at a time on a new
\* empty store with periodic vacuum off, Get(k) returns the value of the last
\* Set(k, _) not followed by a Delete(k) with found = true, and the empty
\* value with found = false for every other key; a Get call that was made
\* returned just that.
C1_GetLastWrite ==
    \A t \in Threads :
        (Quiet(t) /\ status = "open" /\ vacuumBatch = 0) =>
            /\ \A k \in Keys :
                  Get(data, heap, k) =
                      IF k \in DOMAIN expected
                      THEN [val |-> expected[k], ok |-> TRUE]
                      ELSE [val |-> << >>, ok |-> FALSE]
            /\ (pc[t] = "done" /\ ret[t].op = "get") =>
                  /\ ret[t].ok = (ret[t].key \in DOMAIN expected)
                  /\ ret[t].ok => ret[t].val = expected[ret[t].key]
                  /\ ~ret[t].ok => ret[t].val = << >>

\* C1 witness: a key was set twice, the second time to another value, and a
\* Get has returned the second value; the other key is absent.
C1_Witness ==
    \E t \in Threads :
        /\ pc[t] = "done" /\ ret[t].op = "get" /\ ret[t].ok
        /\ nsets = 2 /\ Cardinality(DOMAIN data) = 1
        /\ \E k \in DOMAIN data : LiveCount(file, 0, k) = 1 /\ Len(file) > 20
        /\ ret[t].val = << 5 >>

\* The datums of the index
Indexed == {data[k] : k \in DOMAIN data}

\* The encoded records of the datums at addresses S, by ascending offset
RECURSIVE ConcatByIdx(_)
ConcatByIdx(S) ==
    IF S = {} THEN << >>
    ELSE LET a == CHOOSE x \in S : \A y \in S : heap[x].idx <= heap[y].idx
         IN  Bytes(heap[a]) \o ConcatByIdx(S \ {a})

\* The sum of 9 + key_size + val_size over the datums at addresses S
RECURSIVE SumSizes(_)
SumSizes(S) ==
    IF S = {} THEN 0
    ELSE LET a == CHOOSE x \in S : TRUE
         IN  9 + heap[a].keySize + heap[a].valSize + SumSizes(S \ {a})

\* Goroutine t has just returned from a call of op
Returned(t, op) == pc[t] = "done" /\ ret[t].op = op

\* The file holds at offset off a record that is not tombstoned, with key k
LiveRecordAt(f, off, k) ==
    LET r == readDatum(f, off, 0)
    IN  r.kind = "datum" /\ r.d.deleted = 0 /\ r.d.key = k

\* C2: durability.  Whenever a closed store is re-opened after a sequence
\* of Set, Delete, vacuum and Snapshot calls of one goroutine, the open
\* succeeds and the rebuilt index has exactly the key-to-value contents the
\* store had at Close: no deleted key reappears, no key is lost.
C2_ReopenRestores ==
    [][(status = "closed" /\ status' # "closed") =>
           (status' = "open" /\ KV(data', heap') = kvAtClose)]_vars

\* C3: after a successful vacuum every descriptor of the index carries the
\* new location of its record: the compacted file holds at index[k].offset a
\* record with deleted byte 0 and key k.  (Stated for the first vacuum of a
\* store that has only seen Set and Delete calls; the code leaves the
\* offsets as they were.)
C3_OffsetsFollowVacuum ==
    \A t \in Threads :
        (Returned(t, "vacuum") /\ ret[t].err = "nil" /\ nmaint = 1) =>
            \A k \in DOMAIN data : LiveRecordAt(file, heap[data[k]].idx, k)

\* C4: a write that brings the vacuum counter to VacuumBatch runs vacuum
\* inline and returns: the goroutine never stands at the Lock of vacuum
\* while it is itself the holder of the file mutex.
C4_InlineVacuumReturns ==
    \A t \in Threads : pc[t] = "vacuum" => muFile # t

\* C5: vacuum after any sequence of Set and Delete calls of one goroutine
\* succeeds, leaves what Get returns for every key as it was, and leaves a
\* file that is the concatenation of the records that were not tombstoned,
\* in the order of their offsets before the vacuum; the file size is the sum
\* of 9 + key_size + val_size over the live records.
C5_CompactionEquivalence ==
    \A t \in Threads :
        (Returned(t, "vacuum") /\ nmaint = 1) =>
            /\ ret[t].err = "nil"
            /\ KV(data, heap) = expected
            /\ file = ConcatByIdx(Indexed)
            /\ Len(file) = SumSizes(Indexed)

\* C5 witness: the first vacuum has returned after two Set calls of which
\* one record was tombstoned: one record is left in the file.
C5_Witness ==
    \E t \in Threads :
        /\ Returned(t, "vacuum") /\ nmaint = 1 /\ nsets = 2
        /\ Cardinality(DOMAIN data) = 1
        /\ Len(file) \in {10, 11}

\* The key-to-value contents NewStorage builds from file f
Opened(f) == LET s == NewStorage(f) IN KV(s.data, s.heap)

\* C6: a Snapshot called by the one goroutine after any sequence of Set and
\* Delete calls succeeds, and opening the snapshot file gives exactly the
\* keys Get reported present when Snapshot was called, each with its value:
\* no deleted key, no key missing.
C6_SnapshotEquivalence ==
    \A t \in Threads :
        Returned(t, "snapshot") =>
            /\ ret[t].err = "nil"
            /\ NewStorage(snap).ok
            /\ Opened(snap) = snapAt
            /\ snapAt = expected

\* C6 witness: a Snapshot has returned on a source whose file holds a
\* tombstoned record next to the live ones; the snapshot file is not empty
\* and is shorter than the source file.
C6_Witness ==
    \E t \in Threads :
        /\ Returned(t, "snapshot")
        /\ Len(snap) > 0
        /\ Len(snap) < Len(file)

\* C7: Snapshot leaves the source as it was: when it returns, the source
\* file's bytes, the index's keys and values, and the offset and the deleted
\* flag of every descriptor of the index are those of the moment before it.
C7_SnapshotFrame ==
    \A t \in Threads :
        Returned(t, "snapshot") =>
            /\ file = snapPre.file
            /\ KV(data, heap) = KV(snapPre.data, snapPre.heap)
            /\ \A k \in DOMAIN data :
                  /\ heap[data[k]].idx = snapPre.heap[snapPre.data[k]].idx
                  /\ heap[data[k]].deleted = snapPre.heap[snapPre.data[k]].deleted

\* C8: a Snapshot running next to Set and Delete calls of other goroutines
\* captures the index of the instant it took the read lock: a key is in the
\* opened snapshot file exactly if it was in the index at that instant, and
\* with the value it had then.
C8_SnapshotInstant ==
    \A t \in Threads :
        Returned(t, "snapshot") =>
            /\ NewStorage(snap).ok
            /\ \A k \in Keys :
                  IF k \in DOMAIN snapAt
                  THEN k \in DOMAIN Opened(snap) /\ Opened(snap)[k] = snapAt[k]
                  ELSE k \notin DOMAIN Opened(snap)

\* Contents m holds for key k the outcome of the call that took the file
\* mutex last for k.
OutcomeOfLast(m, k) ==
    IF lastAcq[k].op = "set"
    THEN k \in DOMAIN m /\ m[k] = lastAcq[k].val
    ELSE k \notin DOMAIN m

\* C9: once every call of the concurrent goroutines has returned (Set,
\* Delete and Get calls only), the index holds for every key the outcome of
\* the call that took the file mutex last for that key, and the file, opened
\* again, gives the same.
C9_MutexOrder ==
    ((\A t \in Threads : Quiet(t)) /\ nmaint = 0 /\ status = "open") =>
        /\ NewStorage(file).ok
        /\ \A k \in DOMAIN lastAcq :
              /\ OutcomeOfLast(KV(data, heap), k)
              /\ OutcomeOfLast(Opened(file), k)

C11_GetNextToSet ==
    \A t \in Threads :
        (Returned(t, "get") /\ getObs[t].present /\ ~getObs[t].del) =>
            /\ ret[t].ok
            /\ ret[t].val \in getObs[t].vals

\* C11 witness: a Get of a key of the index has returned after a Set of
\* another value by another goroutine ran next to it, past its MarkDeleted.
C11_Witness ==
    \E t \in Threads :
        /\ Returned(t, "get") /\ getObs[t].present /\ ~getObs[t].del
        /\ Cardinality(getObs[t].vals) = 2
        /\ \E u \in Threads \ {t} :
              /\ loc[u].op = "set" /\ loc[u].key = ret[t].key
              /\ pc[u] \in {"tomb", "store", "write"}

\* The records of a well-formed file f from position pos on, by the layout of
\* the format: offset, deleted byte, key, value.
RECURSIVE RecordsOf(_, _)
RecordsOf(f, pos) ==
    IF pos >= Len(f) THEN << >>
    ELSE LET ks == Uint32(f, pos + 1)
             vs == Uint32(f, pos + 5)
         IN  << [off |-> pos, deleted |-> f[pos + 9],
                 key |-> SubSeq(f, pos + 10, pos + 9 + ks),
                 value |-> SubSeq(f, pos + 10 + ks, pos + 9 + ks + vs)] >>
             \o RecordsOf(f, pos + 9 + ks + vs)

\* The positions in the record list rs of the records of key k that are not
\* tombstoned
LiveOf(rs, k) == {i \in DOMAIN rs : rs[i].key = k /\ rs[i].deleted # 1}

\* The largest element of a non-empty set of numbers
Last(I) == CHOOSE i \in I : \A j \in I : j <= i

\* C12: NewStorage on a well-formed file succeeds; the index holds exactly
\* the keys that have a record that is not tombstoned, each with the value of
\* the last such record in the file; both write counters are zero.
C12_OpenRebuildsIndex ==
    (status # "none" /\ file \in WellFormed(MaxRecs)) =>
        LET rs == RecordsOf(file, 0)
        IN  /\ status = "open"
            /\ DOMAIN data = {k \in Keys : LiveOf(rs, k) # {}}
            /\ \A k \in DOMAIN data :
                  heap[data[k]].value = rs[Last(LiveOf(rs, k))].value
            /\ writeCountSync = 0
            /\ writeCountVacuum = 0

\* C12 witness: a file of two live records of one key with different values
\* has been opened.
C12_Witness ==
    /\ status = "open"
    /\ \E k \in Keys :
          LET rs == RecordsOf(file, 0)
          IN  /\ Len(rs) = 2
              /\ LiveOf(rs, k) = {1, 2}
              /\ rs[1].value # rs[2].value

\* C13: NewStorage on a file whose last record is live, has its header and
\* too few body bytes fails with the short-body error of readDatum: no
\* Storage is returned, the file is closed, and its bytes are as they were.
C13_ShortBodyFails ==
    [][(status = "none" /\ file \in ShortBody /\ status' # "none") =>
           /\ status' = "failed"
           /\ NewStorage(file).err = "err"
           /\ file' = file]_vars

\* C13 witness: NewStorage has failed on a file of one complete record
\* followed by a record cut inside its body.
C13_Witness ==
    /\ status = "failed"
    /\ file \in ShortBody
    /\ Len(file) > 2 * metaSize

\* C14: with FsyncBatch = n > 0 and periodic vacuum off, every append and
\* every tombstone write adds one to writeCountSync; the write that brings it
\* to n syncs the file and sets it to 0; a Set or Delete returns with
\* writeCountSync < n.
C14_SyncCounter ==
    [][\A t \in Threads :
          /\ (pc[t] \in {"tomb", "write"} /\ pc'[t] # pc[t]) =>
                IF writeCountSync + 1 >= fsyncBatch
                THEN writeCountSync' = 0 /\ ~dirty'
                ELSE writeCountSync' = writeCountSync + 1 /\ dirty'
          /\ (pc'[t] = "done" /\ ret'[t].op \in {"set", "delete"}) =>
                writeCountSync' < fsyncBatch]_vars

\* C14 witness: a Set on a key of the index has returned, the third write of
\* the run (an append, a tombstone, an append), and the file was synced and
\* the counter set to 0 on the way.
C14_Witness ==
    \E t \in Threads :
        /\ Returned(t, "set") /\ nsets = 2
        /\ fsyncBatch > 0 /\ vacuumBatch = 0
        /\ writeCountVacuum = 3
        /\ writeCountSync < writeCountVacuum
        /\ Cardinality(DOMAIN data) = 1

\* C15: when Close has returned nil, the file was synced after the last
\* append or tombstone write, whatever FsyncBatch is (0 included).
C15_CloseSyncs ==
    \A t \in Threads :
        (Returned(t, "close") /\ ret[t].err = "nil") => ~dirty

\* C15 witness: Close has returned nil on a store with FsyncBatch = 0 and
\* records in its file.
C15_Witness ==
    \E t \in Threads :
        /\ Returned(t, "close") /\ ret[t].err = "nil"
        /\ fsyncBatch = 0
        /\ Len(file) > 0

\* C16: Delete(k) of a key that is not in the index returns nil and changes
\* nothing: the index, the datums, the bytes of the file and the two write
\* counters are after the call what they were before it.
C16_DeleteMissing ==
    [][\A t \in Threads :
          (pc[t] = "lad" /\ loc[t].key \notin DOMAIN data /\ pc'[t] # pc[t]) =>
              /\ pc'[t] = "done"
              /\ ret'[t].op = "delete" /\ ret'[t].err = "nil"
              /\ data' = data /\ heap' = heap
              /\ file' = file
              /\ writeCountSync' = writeCountSync
              /\ writeCountVacuum' = writeCountVacuum]_vars

\* C16 witness: Delete of a key that is not in the index has returned on a
\* store that was opened on a file holding a tombstoned record of that key
\* and a live record of another key.
C16_Witness ==
    \E t \in Threads :
        /\ Returned(t, "delete")
        /\ ret[t].key \notin DOMAIN data
        /\ data # EmptyMap
        /\ nsets = 0
        /\ \E i \in DOMAIN RecordsOf(file, 0) :
              /\ RecordsOf(file, 0)[i].key = ret[t].key
              /\ RecordsOf(file, 0)[i].deleted = 1

\* C17: a Close called on a Storage that is closed finds the file mutex free,
\* returns nil or an error (the os.ErrClosed of Sync), does not panic, and
\* leaves the file and the closed Storage as they are.
C17_SecondClose ==
    [][\A t \in Threads :
          (pc[t] = "close" /\ status = "closed") =>
              /\ muFile = 0
              /\ (pc'[t] # pc[t]) =>
                    /\ pc'[t] = "done"
                    /\ ret'[t].op = "close"
                    /\ ret'[t].err \in {"nil", ErrClosed}
                    /\ file' = file
                    /\ status' = "closed"]_vars

\* C17 witness: a second Close has returned on a closed Storage whose file
\* holds records.
C17_Witness ==
    \E t \in Threads :
        /\ Returned(t, "close")
        /\ ret[t].err # "nil"
        /\ status = "closed"
        /\ Len(file) > 0

\* C18: a Set, or a Delete of a key of the index, called on a closed Storage
\* fails with ErrDBClosed: the write step that finds the file closed returns
\* that error.
C18_ClosedIsErrDBClosed ==
    [][\A t \in Threads :
          (status = "closed" /\ pc[t] \in {"tomb", "write"} /\ pc'[t] # pc[t]) =>
              /\ pc'[t] = "done"
              /\ ret'[t].op \in {"set", "delete"}
              /\ ret'[t].err = ErrDBClosed]_vars

\* The four bytes of n, least significant first
LittleEndian4(n) ==
    << n % 256, (n \div 256) % 256, (n \div 65536) % 256, (n \div 16777216) % 256 >>

\* C19: the encoding of a record (key, value, deleted flag) is 9 + key_size +
\* val_size bytes: key_size and val_size little-endian, the deleted byte,
\* the key, the value; decoding the header from the first 9 bytes and the
\* body from the rest succeeds and gives the record back.
C19_CodecRoundTrip ==
    /\ codec.step \in {"bytes", "back"} =>
          /\ Len(codec.b) = 9 + Len(codec.d.key) + Len(codec.d.value)
          /\ codec.b = LittleEndian4(Len(codec.d.key))
                           \o LittleEndian4(Len(codec.d.value))
                           \o << codec.d.deleted >>
                           \o codec.d.key \o codec.d.value
    /\ codec.step = "back" =>
          /\ codec.out.err = "nil"
          /\ [codec.out EXCEPT !.err = "nil"] = [err |-> "nil"] @@ codec.d

\* C19 witness: a record marked deleted with a key of more than 255 bytes
\* and the empty value has been encoded and decoded.
C19_Witness ==
    /\ codec.step = "back"
    /\ Len(codec.d.key) > 255
    /\ codec.d.value = << >>
    /\ codec.d.deleted = 1

\* C20: a store opened on a well-formed file (tombstoned records included)
\* and used by one goroutine through Set, Delete and Get, with no vacuum and
\* no Snapshot: whenever no call runs, every descriptor of the index holds
\* the start of its record, the file has there a record with deleted byte 0
\* and the descriptor's key.
C20_OffsetsTrue ==
    ((\A t \in Threads : Quiet(t)) /\ status = "open") =>
        \A k \in DOMAIN data :
            /\ heap[data[k]].key = k
            /\ LiveRecordAt(file, heap[data[k]].idx, k)
            /\ LET rs == RecordsOf(file, 0)
               IN  \E i \in DOMAIN rs : rs[i].off = heap[data[k]].idx

\* C20 witness: the store was opened on a file that starts with a tombstoned
\* record, a Set has returned, and the index holds two keys.
C20_Witness ==
    /\ \A t \in Threads : Quiet(t)
    /\ status = "open"
    /\ nsets = 1
    /\ Cardinality(DOMAIN data) = 2
    /\ Len(file) > 3 * metaSize
    /\ file[metaSize] = 1

\* The complete records of file f from position pos on, by the layout of the
\* format; the list ends where the bytes left do not make a whole record.
RECURSIVE RecordsIn(_, _)
RecordsIn(f, pos) ==
    IF pos + 9 > Len(f) THEN << >>
    ELSE LET ks == Uint32(f, pos + 1)
             vs == Uint32(f, pos + 5)
         IN  IF pos + 9 + ks + vs > Len(f) THEN << >>
             ELSE << [off |-> pos, deleted |-> f[pos + 9],
                      key |-> SubSeq(f, pos + 10, pos + 9 + ks),
                      value |-> SubSeq(f, pos + 10 + ks, pos + 9 + ks + vs)] >>
                  \o RecordsIn(f, pos + 9 + ks + vs)

\* File g is file f with the one byte at 0-based offset at set to b.
OneByteSet(f, g, at, b) ==
    /\ Len(g) = Len(f)
    /\ at < Len(f)
    /\ g[at + 1] = b
    /\ \A j \in 1..Len(f) : j # at + 1 => g[j] = f[j]

\* C21: with goroutines calling Set and Delete next to each other and vacuum
\* off, every tombstone write of a Set or Delete on key k sets to 1 the one
\* byte at offset + 8 of a record of the file whose key is k, and changes no
\* other byte: no record of another key is touched.
C21_TombstoneOwnRecord ==
    [][\A t \in Threads :
          (pc[t] = "tomb" /\ status = "open" /\ pc'[t] # pc[t]) =>
              LET rs == RecordsIn(file, 0)
              IN  \E i \in DOMAIN rs :
                      /\ rs[i].key = loc[t].key
                      /\ OneByteSet(file, file', rs[i].off + 8, 1)]_vars

\* C22: across any sequence of Set, Delete and vacuum calls of one goroutine
\* the file grows only by appends: the append of a successful Set adds
\* exactly 9 + len(key) + len(value) bytes, whether or not the value is the
\* key's current one, and the tombstone write of a Set or Delete leaves the
\* file length as it is.
C22_FileSizeAccounting ==
    [][\A t \in Threads :
          /\ (pc[t] = "write" /\ status = "open" /\ pc'[t] # pc[t]) =>
                Len(file') = Len(file) + 9 + Len(loc[t].key) + Len(loc[t].val)
          /\ (pc[t] = "tomb" /\ status = "open" /\ pc'[t] # pc[t]) =>
                Len(file') = Len(file)]_vars

\* The bytes of a live record of key k and value v, by the layout of the format
RecordBytes(k, v) ==
    LittleEndian4(Len(k)) \o LittleEndian4(Len(v)) \o << 0 >> \o k \o v

\* The records of the calls of sq, one after the other
RECURSIVE ConcatRecords(_)
ConcatRecords(sq) ==
    IF sq = << >> THEN << >>
    ELSE RecordBytes(Head(sq).key, Head(sq).val) \o ConcatRecords(Tail(sq))

\* No two calls of sq have the same key
DistinctKeys(sq) == \A i, j \in DOMAIN sq : i # j => sq[i].key # sq[j].key

\* C23: goroutines call Set next to each other on a new store, each call on
\* a key of its own.  Once every call has returned, every key is in the
\* index with its value, and the file is one whole record per key, in the
\* order in which the calls took the file mutex for their append.
C23_DistinctSetsSerialize ==
    ((\A t \in Threads : Quiet(t)) /\ status = "open"
        /\ Len(acqSeq) = nsets /\ DistinctKeys(acqSeq)) =>
        /\ \A i \in DOMAIN acqSeq :
              Get(data, heap, acqSeq[i].key) = [val |-> acqSeq[i].val, ok |-> TRUE]
        /\ DOMAIN data = {acqSeq[i].key : i \in DOMAIN acqSeq}
        /\ file = ConcatRecords(acqSeq)

\* C23 witness: two goroutines have each returned from a Set on a key of its
\* own, and the goroutine that stored its datum in the index first took the
\* file mutex second.
C23_Witness ==
    /\ \A t \in Threads : Returned(t, "set") /\ ret[t].err = "nil"
    /\ Cardinality(Threads) = 2
    /\ Len(acqSeq) = nsets /\ DistinctKeys(acqSeq)
    /\ Len(heap) = 2
    /\ heap[1].idx > heap[2].idx

\* Goroutine u is inside vacuum, between its first Seek and its Truncate.
InVacuum(u) == pc[u] \in {"vac_copy", "vac_trunc"}

\* C24: while a goroutine is inside vacuum, between the first Seek and the
\* final Truncate, no append and no tombstone write of a Set or Delete of
\* another goroutine is applied to the file: the file changes only by the
\* steps of vacuum itself.
C24_VacuumExcludesWriters ==
    [][\A u \in Threads :
          InVacuum(u) =>
              /\ \A t \in Threads \ {u} :
                    pc[t] \in {"tomb", "write"} => pc'[t] = pc[t]
              /\ file' # file => pc'[u] # pc[u]]_vars

\* C24 witness: a goroutine is inside vacuum with the file partially
\* compacted (copied back, not yet truncated) while another goroutine stands
\* at the tombstone write or the append of its call.
C24_Witness ==
    \E u \in Threads :
        /\ pc[u] = "vac_trunc"
        /\ Len(file) > loc[u].cleanedSize
        /\ \E t \in Threads \ {u} : pc[t] \in {"tomb", "write"}

\* C25: with VacuumBatch = 0, goroutines calling Get, Set, Delete, Snapshot
\* and Close next to each other never block each other for good: under a
\* fair scheduler every call that was made returns (a result or an error).
C25_CallsReturn ==
    \A t \in ConcThreads : (pc[t] # "idle") ~> (pc[t] = "done")

\* C25 witness: a Set or Delete waits for the index write lock behind a
\* running Snapshot, on a Storage that another call has closed.
C25_Witness ==
    \E t, u \in Threads :
        /\ pc[t] \in {"store_wait", "lad_wait"}
        /\ u \in rlock
        /\ pc[u] = "snap_range"
        /\ status = "closed"

\* A writer is inside Store or LoadAndDelete: it waited for the write lock
\* of the index and no reader holds the lock any more, so the lock is its.
WriterInside == \E w \in Threads : pc[w] \in {"store_wait", "lad_wait"} /\ rlock = {}

\* C26: a Get is held up only while a writer is inside Store or
\* LoadAndDelete: at any other time a Get that has been called can take its
\* Load and return, whoever holds the file mutex, while a Snapshot holds
\* the read lock of the index, and also while a Set or Delete waits for the
\* write lock.
C26_GetNeverWaits ==
    \A t \in Threads :
        (pc[t] = "get_load" /\ ~WriterInside) => ENABLED GetLoad(t)

\* The record of the list rs that starts at offset off
RecordAt(rs, off) == rs[CHOOSE i \in DOMAIN rs : rs[i].off = off]

\* C27: one scan step on a well-formed file.  At the end of the file it
\* returns EOF and leaves idx as it is.  At a record it advances idx by
\* exactly 9 + key_size + val_size; a tombstoned record gives no record and
\* no error, a live record is returned with its key and value and stamped
\* with the idx before the step.  When the scan from offset 0 has reached
\* EOF, idx equals the file size.
C27_ScanStep ==
    [][(status = "scan" /\ scan' # scan) =>
          LET rs == RecordsOf(file, 0)
          IN  /\ scan.pos = idx
              /\ IF scan.pos = Len(file)
                 THEN scan'.kind = "eof" /\ idx' = idx /\ idx' = Len(file)
                 ELSE /\ \E i \in DOMAIN rs : rs[i].off = scan.pos
                      /\ LET rec == RecordAt(rs, scan.pos)
                         IN  /\ idx' = idx + 9 + Len(rec.key) + Len(rec.value)
                             /\ IF rec.deleted = 1
                                THEN scan'.kind = "skip" /\ scan'.d = None
                                ELSE /\ scan'.kind = "datum"
                                     /\ scan'.d.idx = idx
                                     /\ scan'.d.key = rec.key
                                     /\ scan'.d.value = rec.value
                                     /\ scan'.d.deleted = 0]_vars

\* C27 witness: the scan of a file of a tombstoned record followed by a live
\* record has reached EOF with idx at the file size.
C27_Witness ==
    /\ status = "scan"
    /\ scan.kind = "eof"
    /\ idx = Len(file)
    /\ LET rs == RecordsOf(file, 0)
       IN  Len(rs) = 2 /\ rs[1].deleted = 1 /\ rs[2].deleted = 0

\* The error readDatum returns for a header cut short by the end of the file
ErrShortMeta == "reading metadata"

\* C28: NewStorage on a file that ends inside a header (1 to 8 bytes after
\* the last complete record) fails with the short-metadata error of the scan
\* step; the partial header is not decoded as a record, and the index gets
\* no entry from it: what the scan has built holds only the records of the
\* complete part of the file.
C28_ShortHeaderFails ==
    [][(status = "none" /\ file \in ShortHeader /\ status' # "none") =>
           /\ status' = "failed"
           /\ NewStorage(file).err = ErrShortMeta
           /\ \A k \in DOMAIN data' :
                 LiveOf(RecordsIn(file, 0), k) # {}]_vars

\* C29: a batch of 0 switches the periodic work off.  With VacuumBatch = 0
\* no append and no tombstone write of a Set or Delete enters vacuum, and
\* the file does not shrink; with FsyncBatch = 0 none of them syncs the
\* file: the write is left unsynced.
C29_ZeroDisables ==
    [][\A t \in Threads :
          (pc[t] \in {"tomb", "write"} /\ status = "open" /\ pc'[t] # pc[t]) =>
              /\ vacuumBatch = 0 => (pc'[t] # "vacuum" /\ Len(file') >= Len(file))
              /\ fsyncBatch = 0 => dirty']_vars

\* C29 witness: with both batches 0 a Set has returned after three writes
\* (more than the batches of the other Configs): both counters stand at 3
\* and the file is unsynced.
C29_Witness ==
    \E t \in Threads :
        /\ Returned(t, "set")
        /\ vacuumBatch = 0 /\ fsyncBatch = 0
        /\ writeCountVacuum = 3 /\ writeCountSync = 3
        /\ dirty
        /\ Len(file) > 2 * metaSize

\* The records of key k in file f: offset, deleted byte and value of each
RecordsOfKey(f, k) ==
    LET rs == RecordsIn(f, 0)
    IN  {rs[i] : i \in {j \in DOMAIN rs : rs[j].key = k}}

C31_OffsetsWithin32Bits ==
    (wide # None /\ wide.step = "done") =>
        IF AboveMaxUint32(wide.offset)
        THEN wide.err # "nil"
        ELSE wide.err = "nil" /\ wide.d.idx = wide.offset

====
